---- MODULE Spec2Model ----
(***************************************************************************)
(* State-machine model of src/main.py (class ItemkuMonitor): the inventory *)
(* allocator get_available_account, the driver process_pending_orders, the *)
(* submission process_order, the manual-delivery conversation              *)
(* (handle_delivery_type / handle_manual_input / validate_input) and the   *)
(* poll loop monitor.                                                      *)
(*                                                                         *)
(* Text is modelled as a sequence of one-character strings, so that        *)
(* str.strip, str.split(',') and re.match are computed, not assumed.       *)
(***************************************************************************)
EXTENDS Integers, Sequences, FiniteSets, TLC

VARIABLES
    inventory,       \* Firebase /Products: product id -> product data
    now,             \* int(time.time() * 1000)
    orderStatus,     \* order source: status of every order id
    orderStore,      \* Firebase /Orders: order id -> persisted outcome
    manual_process,  \* self.manual_process, in dict insertion order
    retry_count,     \* monitor: retry_count
    mpc,             \* monitor: position in the loop
    orders,          \* monitor: the list get_recent_orders returned
    oidx,            \* process_pending_orders: index of the next order
    reserved,        \* history: total currentUser increase caused per order
    calls,           \* concurrent callers of get_available_account
    has_escape,      \* whether self.escape_telegram_message can be called
    last             \* the last operation: its call, return value, effects

vars == <<inventory, now, orderStatus, orderStore, manual_process,
          retry_count, mpc, orders, oidx, reserved, calls, has_escape, last>>

(***************************************************************************)
(* Bounds of the model.                                                    *)
(***************************************************************************)
\* largest maxUser of an initial inventory record
MaxCap == 2
\* last value of the clock (it starts at 1)
MaxNow == 2

\* monitor: max_retries
max_retries == 3

(***************************************************************************)
(* Generic helpers.                                                        *)
(***************************************************************************)
Min(a, b) == IF a <= b THEN a ELSE b

(***************************************************************************)
(* Inventory records (src/main.py:302-312).                                *)
(***************************************************************************)
Products == {"p1", "p2"}

\* an entry of the accounts list that is not a dict (a hole in the list)
NotADict == [isDict |-> FALSE, currentUser |-> 0, maxUser |-> 0,
             expired_at |-> 0, lastUsed |-> 0]

\* the records an initial inventory may hold: currentUser <= maxUser
InitAccounts ==
    UNION {{[isDict |-> TRUE, currentUser |-> c, maxUser |-> m,
             expired_at |-> e, lastUsed |-> 0] : c \in 0..m, e \in 1..MaxNow} :
           m \in 0..MaxCap}

NoData == [exists |-> FALSE, accounts |-> <<>>]

\* remaining = max_users - current_users
Remaining(acc) == acc.maxUser - acc.currentUser

\* the filter without the quantity: any capacity left will do
IsAvailableAnyCapacity(acc, order_quantity, current_time) ==
    /\ acc.isDict
    /\ acc.expired_at >= current_time
    /\ Remaining(acc) > 0

\* the filter without the expiry test
IsAvailableIgnoringExpiry(acc, order_quantity, current_time) ==
    /\ acc.isDict
    /\ Remaining(acc) >= order_quantity

\* the filter at line 311 (after the isinstance test at line 303)
IsAvailable(acc, order_quantity, current_time) ==
    /\ acc.isDict
    /\ acc.expired_at >= current_time
    /\ Remaining(acc) >= order_quantity

\* lines 299-312: the (idx, remaining) pairs appended, in list order.
\* idx is the 0-based enumerate index.
RECURSIVE AvailableFrom(_, _, _, _)
AvailableFrom(accounts, i, order_quantity, current_time) ==
    IF i > Len(accounts) THEN <<>>
    ELSE LET rest == AvailableFrom(accounts, i + 1, order_quantity, current_time)
         IN IF IsAvailable(accounts[i], order_quantity, current_time)
            THEN <<[idx |-> i - 1, remaining |-> Remaining(accounts[i])]>> \o rest
            ELSE rest

available_accounts(accounts, order_quantity, current_time) ==
    AvailableFrom(accounts, 1, order_quantity, current_time)

\* a sort that moves an element in front of its equals (not stable)
SortsBeforeUnstable(x, y) == x.remaining <= y.remaining

\* the comparison list.sort(key=lambda x: x[2]) makes: x goes before y
\* only when its key is strictly smaller (the sort is stable)
SortsBefore(x, y) == x.remaining < y.remaining

\* insert x into the sorted sequence s behind every element it does not
\* sort before
RECURSIVE InsertSorted(_, _)
InsertSorted(s, x) ==
    IF s = <<>> THEN <<x>>
    ELSE IF SortsBefore(x, Head(s)) THEN <<x>> \o s
         ELSE <<Head(s)>> \o InsertSorted(Tail(s), x)

\* line 317: a stable sort by remaining, ascending
RECURSIVE SortByRemaining(_)
SortByRemaining(s) ==
    IF s = <<>> THEN <<>>
    ELSE InsertSorted(SortByRemaining(SubSeq(s, 1, Len(s) - 1)), s[Len(s)])

(***************************************************************************)
(* get_available_account (src/main.py:288-342).                            *)
(* inv is the store as it is when the update is written, product_data the  *)
(* value read at line 294 (the same thing when the call runs alone).       *)
(* store is what the store does: "ok", "read_fails" (the read at line 294  *)
(* raises) or "update_fails" (the update at line 323 raises).              *)
(***************************************************************************)
StoreOutcomes == {"ok", "read_fails", "update_fails"}

\* a failure that hands the record out with the error
AllocFailureWithRecord(inv, msg) ==
    [inventory |-> inv, returned |-> TRUE,
     account |-> inv["p1"].accounts[1], idx |-> 0, error |-> msg]

\* lines 296, 315, 335, 342: return None, <error>
AllocFailure(inv, msg) ==
    [inventory |-> inv, returned |-> FALSE, account |-> NotADict,
     idx |-> -1, error |-> msg]

\* an update that counts one lease whatever the quantity
UpdatedAccountByOne(current, account, order_quantity, t) ==
    [current EXCEPT !.currentUser = account.currentUser + 1,
                    !.lastUsed = t]

\* lines 322-326: the fields written to accounts/<idx>
UpdatedAccount(current, account, order_quantity, t) ==
    [current EXCEPT !.currentUser = account.currentUser + order_quantity,
                    !.lastUsed = t]

get_available_account(inv, product_data, product_id, order_quantity, t, store) ==
    IF store = "read_fails" THEN AllocFailure(inv, "Database error occurred")
    ELSE IF ~product_data.exists THEN AllocFailure(inv, "Product not found")
    ELSE LET accounts == product_data.accounts
             available == available_accounts(accounts, order_quantity, t)
         IN IF available = <<>> THEN AllocFailure(inv, "No available accounts")
            ELSE LET idx == SortByRemaining(available)[1].idx
                     account == accounts[idx + 1]
                 IN IF store = "update_fails"
                    THEN AllocFailure(inv, "Account update failed")
                    ELSE [inventory |->
                              [inv EXCEPT ![product_id].accounts[idx + 1] =
                                  UpdatedAccount(@, account, order_quantity, t)],
                          returned |-> TRUE, account |-> account,
                          idx |-> idx, error |-> ""]

(***************************************************************************)
(* The order source.  Its listing (POST /order/list) is the catalogue      *)
(* below, in this order, with the status each order has at the time.       *)
(* An empty order_id or product_id is a missing key; hasQuantity = FALSE   *)
(* is a missing quantity key.                                              *)
(***************************************************************************)
OrderIds == {"o1", "o2", "o3"}

Catalogue ==
    << [order_id |-> "o1", product_id |-> "p1", hasQuantity |-> FALSE, quantity |-> 0],
       [order_id |-> "",   product_id |-> "p1", hasQuantity |-> TRUE,  quantity |-> 1],
       [order_id |-> "o2", product_id |-> "p1", hasQuantity |-> TRUE,  quantity |-> 2],
       [order_id |-> "o4", product_id |-> "",   hasQuantity |-> TRUE,  quantity |-> 1],
       [order_id |-> "o3", product_id |-> "p2", hasQuantity |-> TRUE,  quantity |-> 1] >>

\* the listing entry of catalogue position i, given the orders' statuses
ListingEntry(i, status) ==
    [order_id |-> Catalogue[i].order_id,
     product_id |-> Catalogue[i].product_id,
     hasQuantity |-> Catalogue[i].hasQuantity,
     quantity |-> Catalogue[i].quantity,
     status |-> IF Catalogue[i].order_id \in OrderIds
                THEN status[Catalogue[i].order_id]
                ELSE "REQUIRE_PROCESS"]

Listing(status) == [i \in 1..Len(Catalogue) |-> ListingEntry(i, status)]

\* line 224: order.get('quantity', 1)
QuantityOf(order) == IF order.hasQuantity THEN order.quantity ELSE 1

\* lines 215-222: the orders process_pending_orders acts on
NeedsProcessing(order) ==
    /\ order.status = "REQUIRE_PROCESS"
    /\ order.order_id # ""
    /\ order.product_id # ""

(***************************************************************************)
(* The record kept of the last operation: what was called, what it         *)
(* returned, what it sent and submitted.                                   *)
(***************************************************************************)
NoAlloc ==
    [called |-> FALSE, product_id |-> "", quantity |-> 0, store |-> "ok",
     t |-> 0, before |-> <<>>,
     returned |-> FALSE, account |-> NotADict, idx |-> -1, error |-> ""]

\* a call get_available_account(product_id, quantity) made at time t on
\* the inventory before, which returned r
AllocCall(product_id, quantity, store, t, before, r) ==
    [called |-> TRUE, product_id |-> product_id, quantity |-> quantity,
     store |-> store, t |-> t, before |-> before,
     returned |-> r.returned, account |-> r.account,
     idx |-> r.idx, error |-> r.error]

NoLast ==
    [op |-> "init", order_id |-> "", text |-> <<>>, alloc |-> NoAlloc,
     raised |-> "", msgs |-> <<>>, submits |-> <<>>]

\* a message handed to send_telegram_message; button is the callback_data
\* of the inline button attached to it ("" when there is none)
Msg(text, button_kind, button_target) ==
    [text |-> text, button_kind |-> button_kind, button_target |-> button_target]

(***************************************************************************)
(* process_order (src/main.py:258-286).  outcome is what the order source  *)
(* and the order store do with the request:                                *)
(*   "transport_error"     requests.post or response.json raises           *)
(*   "rejected"            the source answers success = false              *)
(*   "accepted"            the source answers success, the store update    *)
(*                         at line 276 succeeds                            *)
(*   "accepted_store_fails" the source answers success, the update raises  *)
(***************************************************************************)
SubmitOutcomes == {"transport_error", "rejected", "accepted", "accepted_store_fails"}

NoOutcome == [present |-> FALSE, status |-> "", processed_at |-> 0,
              delivery_info |-> <<>>]

\* a result that reports success as soon as the order source accepted
process_order_result_ignoring_store(outcome) ==
    CASE outcome \in {"accepted", "accepted_store_fails"} ->
             [ok |-> TRUE, message |-> "Success"]
      [] outcome = "rejected" -> [ok |-> FALSE, message |-> "Failed"]
      [] OTHER -> [ok |-> FALSE, message |-> "exception"]

\* the (ok, message) pair process_order returns
process_order_result(outcome) ==
    CASE outcome = "accepted" -> [ok |-> TRUE, message |-> "Success"]
      [] outcome = "rejected" -> [ok |-> FALSE, message |-> "Failed"]
      [] OTHER -> [ok |-> FALSE, message |-> "exception"]

\* lines 276-280: what the order store holds after the call
process_order_store(store, order_id, action, delivery_info, t, outcome) ==
    IF outcome = "accepted" /\ order_id \in DOMAIN store
    THEN [store EXCEPT ![order_id] =
             [present |-> TRUE, status |-> action, processed_at |-> t,
              delivery_info |-> delivery_info]]
    ELSE store

\* the order source: an order whose DELIVER action it accepted is delivered
process_order_source(status, order_id, action, outcome) ==
    IF outcome \in {"accepted", "accepted_store_fails"}
       /\ action = "DELIVER" /\ order_id \in DOMAIN status
    THEN [status EXCEPT ![order_id] = "DELIVERED"]
    ELSE status

\* the record of one process_order call
Submission(order_id, action, delivery_info, outcome) ==
    [order_id |-> order_id, action |-> action, delivery_info |-> delivery_info,
     outcome |-> outcome, ok |-> process_order_result(outcome).ok]

(***************************************************************************)
(* Initial states.                                                         *)
(***************************************************************************)
\* the quantities get_available_account is called with
Quantities == 1..MaxCap

InitialInventories ==
    {[p \in Products |->
        IF p = "p1" THEN [exists |-> TRUE, accounts |-> <<a, b>>] ELSE NoData] :
     a \in InitAccounts \cup {NotADict}, b \in InitAccounts \cup {NotADict}}

NoCall == [pc |-> "idle", product_id |-> "", quantity |-> 0, t |-> 0,
           product_data |-> NoData, available |-> <<>>, idx |-> -1,
           returned |-> FALSE]

Callers == {1, 2}

InitCommon ==
    /\ now = 1
    /\ orderStatus = [o \in OrderIds |-> "REQUIRE_PROCESS"]
    /\ orderStore = [o \in OrderIds |-> NoOutcome]
    /\ manual_process = <<>>
    /\ retry_count = 0
    /\ mpc = "poll"
    /\ orders = <<>>
    /\ oidx = 1
    /\ reserved = [o \in OrderIds |-> 0]
    /\ calls = [c \in Callers |-> NoCall]
    /\ last = NoLast

\* escape_telegram_message is called at lines 227 and 249 and main.py
\* defines no such method: where nothing else supplies it the call raises
\* AttributeError, and that holds for the whole run
EscapeDefined == {TRUE, FALSE}

(***************************************************************************)
(* The clock.                                                              *)
(***************************************************************************)
Tick ==
    /\ now < MaxNow
    /\ now' = now + 1
    /\ last' = [NoLast EXCEPT !.op = "tick"]
    /\ UNCHANGED <<inventory, orderStatus, orderStore, manual_process,
                   retry_count, mpc, orders, oidx, reserved, calls, has_escape>>

(***************************************************************************)
(* A call of get_available_account on its own (src/main.py:288-342).       *)
(***************************************************************************)
CallGetAvailableAccount(product_id, order_quantity, store) ==
    LET r == get_available_account(inventory, inventory[product_id], product_id,
                                   order_quantity, now, store)
    IN /\ inventory' = r.inventory
       /\ last' = [NoLast EXCEPT !.op = "get_available_account",
                                 !.alloc = AllocCall(product_id, order_quantity, store, now, inventory, r)]
       /\ UNCHANGED <<now, orderStatus, orderStore, manual_process,
                      retry_count, mpc, orders, oidx, reserved, calls, has_escape>>

(***************************************************************************)
(* monitor (src/main.py:417-451), one action per position of the loop.     *)
(***************************************************************************)
\* lines 426-435: get_recent_orders returns the listing, or [] when the
\* request fails or the source has no orders
MonitorPoll(got) ==
    /\ mpc = "poll"
    /\ IF got = <<>> /\ retry_count < max_retries
       THEN /\ retry_count' = retry_count + 1
            /\ UNCHANGED <<mpc, orders, oidx>>
       ELSE /\ retry_count' = 0
            /\ orders' = got
            /\ oidx' = 1
            /\ mpc' = "process"
    /\ last' = [NoLast EXCEPT !.op = "get_recent_orders"]
    /\ UNCHANGED <<inventory, now, orderStatus, orderStore, manual_process,
                   reserved, calls, has_escape>>

\* an except branch that ends the loop
MonitorExceptStop ==
    /\ retry_count' = retry_count
    /\ mpc' = "stopped"
    /\ UNCHANGED <<orders, oidx>>

\* lines 439-448: the except branch of the loop
MonitorExcept ==
    /\ retry_count' = IF retry_count < max_retries THEN retry_count + 1 ELSE 0
    /\ mpc' = "poll"
    /\ UNCHANGED <<orders, oidx>>

\* lines 215-222: an order the loop passes over
ProcessPendingSkip ==
    /\ mpc = "process"
    /\ oidx <= Len(orders)
    /\ ~NeedsProcessing(orders[oidx])
    /\ oidx' = oidx + 1
    /\ last' = [NoLast EXCEPT !.op = "process_pending_orders_skip",
                              !.order_id = orders[oidx].order_id]
    /\ UNCHANGED <<inventory, now, orderStatus, orderStore, manual_process,
                   retry_count, mpc, orders, reserved, calls, has_escape>>

\* line 227: self.escape_telegram_message is called, and ItemkuMonitor
\* defines no such method: the call raises AttributeError, which leaves
\* process_pending_orders and is caught at line 439
ProcessPendingRaise ==
    /\ ~has_escape
    /\ mpc = "process"
    /\ oidx <= Len(orders)
    /\ NeedsProcessing(orders[oidx])
    /\ MonitorExcept
    /\ last' = [NoLast EXCEPT !.op = "process_pending_orders",
                              !.order_id = orders[oidx].order_id,
                              !.raised = "AttributeError"]
    /\ UNCHANGED <<inventory, now, orderStatus, orderStore, manual_process,
                   reserved, calls, has_escape>>

\* escape_telegram_message, called at lines 227 and 249 and defined
\* nowhere in main.py: text in, escaped text out, no other effect
escape_telegram_message(text) == <<"escaped", text>>

\* an error message without the button that starts manual delivery
ProcessPendingMsgsNoButton(order_id, r) ==
    IF r.returned
    THEN <<Msg("New Order", "", "")>>
    ELSE <<Msg("New Order", "", ""),
           Msg(<<"Stock Not Available", escape_telegram_message(r.error)>>, "", "")>>

\* the messages of lines 236 and 255
ProcessPendingMsgs(order_id, r) ==
    IF r.returned
    THEN <<Msg("New Order", "", "")>>
    ELSE <<Msg("New Order", "", ""),
           Msg(<<"Stock Not Available", escape_telegram_message(r.error)>>,
               "manual_process", order_id)>>

\* lines 224-256: one order of the loop, when escape_telegram_message is
\* there to be called
ProcessPendingOrder(store) ==
    /\ has_escape
    /\ mpc = "process"
    /\ oidx <= Len(orders)
    /\ NeedsProcessing(orders[oidx])
    /\ LET order == orders[oidx]
           r == get_available_account(inventory, inventory[order.product_id],
                                      order.product_id, QuantityOf(order), now, store)
       IN /\ inventory' = r.inventory
          /\ reserved' = IF r.returned /\ order.order_id \in OrderIds
                         THEN [reserved EXCEPT ![order.order_id] = @ + QuantityOf(order)]
                         ELSE reserved
          /\ last' = [NoLast EXCEPT
                         !.op = "process_pending_orders",
                         !.order_id = order.order_id,
                         !.alloc = AllocCall(order.product_id, QuantityOf(order), store,
                                             now, inventory, r),
                         !.msgs = ProcessPendingMsgs(order.order_id, r)]
    /\ oidx' = oidx + 1
    /\ UNCHANGED <<now, orderStatus, orderStore, manual_process,
                   retry_count, mpc, orders, calls, has_escape>>

\* line 437: the loop over the orders is over, the tick ends
ProcessPendingReturn ==
    /\ mpc = "process"
    /\ oidx > Len(orders)
    /\ mpc' = "poll"
    /\ last' = [NoLast EXCEPT !.op = "process_pending_orders_return"]
    /\ UNCHANGED <<inventory, now, orderStatus, orderStore, manual_process,
                   retry_count, orders, oidx, reserved, calls, has_escape>>

(***************************************************************************)
(* A call of process_order on its own: a DELIVER action (re)submitted for  *)
(* an order (src/main.py:258-286).                                         *)
(***************************************************************************)
CallProcessOrder(order_id, action, delivery_info, outcome) ==
    /\ orderStore' = process_order_store(orderStore, order_id, action,
                                         delivery_info, now, outcome)
    /\ orderStatus' = process_order_source(orderStatus, order_id, action, outcome)
    /\ last' = [NoLast EXCEPT
                   !.op = "process_order",
                   !.order_id = order_id,
                   !.submits = <<Submission(order_id, action, delivery_info, outcome)>>]
    /\ UNCHANGED <<inventory, now, manual_process, retry_count, mpc, orders,
                   oidx, reserved, calls, has_escape>>

(***************************************************************************)
(* Specifications.                                                         *)
(***************************************************************************)
\* the payload of a DELIVER action submitted on its own
SamplePayload == <<[isDict |-> FALSE, str |-> <<"k">>, items |-> <<>>]>>

\* the inventories the poll loop is started on
DriverInventories ==
    {inv \in InitialInventories :
        \A i \in 1..2 : /\ inv["p1"].accounts[i].isDict
                         /\ inv["p1"].accounts[i].expired_at = MaxNow}

\* Spec: the program as main runs it, the poll loop against the order
\* source and the stores (with escape_telegram_message there or not), and
\* DELIVER actions submitted for order o1 meanwhile
Init ==
    /\ InitCommon
    /\ inventory \in DriverInventories
    /\ has_escape \in EscapeDefined

Next ==
    \/ Tick
    \/ \E got \in {Listing(orderStatus), <<>>} : MonitorPoll(got)
    \/ ProcessPendingSkip
    \/ ProcessPendingRaise
    \/ \E store \in StoreOutcomes : ProcessPendingOrder(store)
    \/ ProcessPendingReturn
    \/ \E outcome \in SubmitOutcomes :
          CallProcessOrder("o1", "DELIVER", SamplePayload, outcome)

Spec == Init /\ [][Next]_vars

\* SpecAlloc: get_available_account called with every product and quantity
\* on every initial inventory, at any time
InitAlloc ==
    /\ InitCommon
    /\ inventory \in InitialInventories
    /\ has_escape = FALSE

NextAlloc ==
    \/ Tick
    \/ \E product_id \in Products, q \in Quantities, store \in StoreOutcomes :
          CallGetAvailableAccount(product_id, q, store)

SpecAlloc == InitAlloc /\ [][NextAlloc]_vars

(***************************************************************************)
(* Text: a sequence of one-character strings.                              *)
(***************************************************************************)
Whitespace == {" "}
Digits == {"0", "1", "2", "3", "4", "5", "6", "7", "8", "9"}

RECURSIVE lstrip(_)
lstrip(s) == IF s # <<>> /\ Head(s) \in Whitespace THEN lstrip(Tail(s)) ELSE s

RECURSIVE rstrip(_)
rstrip(s) ==
    IF s # <<>> /\ s[Len(s)] \in Whitespace
    THEN rstrip(SubSeq(s, 1, Len(s) - 1))
    ELSE s

\* str.strip()
strip(s) == rstrip(lstrip(s))

\* the position of the first comma of s, 0 when it has none
FirstComma(s) ==
    IF \E i \in 1..Len(s) : s[i] = ","
    THEN CHOOSE i \in 1..Len(s) : s[i] = "," /\ \A j \in 1..(i - 1) : s[j] # ","
    ELSE 0

\* str.split(','): "" gives [""], "a,,c" gives ["a", "", "c"]
RECURSIVE split(_)
split(s) ==
    IF FirstComma(s) = 0 THEN <<s>>
    ELSE <<SubSeq(s, 1, FirstComma(s) - 1)>>
            \o split(SubSeq(s, FirstComma(s) + 1, Len(s)))

\* a validation pattern: none (None, or the key is missing), or a regular
\* expression [class]{count} with or without a closing $
NoPattern == [given |-> FALSE, class |-> {}, count |-> 0, end |-> FALSE]

\* ^[0-9]{4}$
FourDigits == [given |-> TRUE, class |-> Digits, count |-> 4, end |-> TRUE]

\* re.match(pattern, value): the pattern matches at the start of value
re_match(pattern, value) ==
    /\ Len(value) >= pattern.count
    /\ \A i \in 1..pattern.count : value[i] \in pattern.class
    /\ pattern.end => Len(value) = pattern.count

\* a validation that takes every value that is not empty
validate_input_no_pattern(value, pattern) ==
    IF value = <<>> THEN [ok |-> FALSE, msg |-> "Input cannot be empty"]
    ELSE [ok |-> TRUE, msg |-> ""]

\* a validation whose notice is the same for every failure
validate_input_one_notice(value, pattern) ==
    IF value = <<>> THEN [ok |-> FALSE, msg |-> "Input cannot be empty"]
    ELSE IF pattern.given /\ ~re_match(pattern, value)
         THEN [ok |-> FALSE, msg |-> "Input cannot be empty"]
         ELSE [ok |-> TRUE, msg |-> ""]

\* validate_input (src/main.py:139-149): the result and the message sent
validate_input(value, pattern) ==
    IF value = <<>> THEN [ok |-> FALSE, msg |-> "Input cannot be empty"]
    ELSE IF pattern.given /\ ~re_match(pattern, value)
         THEN [ok |-> FALSE, msg |-> "Input format invalid"]
         ELSE [ok |-> TRUE, msg |-> ""]

(***************************************************************************)
(* The order detail of the order source (POST /order/detail).              *)
(***************************************************************************)
\* the order ids the operator's buttons carry
ManualOrders == {"o1", "o2"}

\* order_info.get('delivery_info_field', [])
delivery_info_field(order_id) ==
    IF order_id = "o1"
    THEN << [field_name |-> "email", validation_pattern |-> NoPattern],
            [field_name |-> "code",  validation_pattern |-> FourDigits] >>
    ELSE <<>>

\* get_order_info (src/main.py:151-160): "data" (the order's detail),
\* "none" (the response is not ok, or holds no data: the order is not
\* found) or "raise" (requests.post raises)
OrderInfoOutcomes == {"data", "none", "raise"}

\* the replies of the operator
Replies ==
    { <<>>,
      <<" ">>,
      <<"a", ",", " ", "b", " ", ",", "c">>,
      <<"a", ",", ",", "c">>,
      <<" ", "x", "@", "y", ".", "c", "o", "m", " ">>,
      <<"1", "2", "a", "4">>,
      <<"1", "2", "3", "4">> }

(***************************************************************************)
(* self.manual_process: a dict, kept as the sequence of its items in       *)
(* insertion order.                                                        *)
(***************************************************************************)
HasEntry(mp, order_id) == \E i \in 1..Len(mp) : mp[i].order_id = order_id

EntryIndex(mp, order_id) == CHOOSE i \in 1..Len(mp) : mp[i].order_id = order_id

\* self.manual_process[order_id] = value: a key that is there keeps its place
SetEntry(mp, order_id, type_num, inputs) ==
    LET e == [order_id |-> order_id, type |-> type_num, inputs |-> inputs]
    IN IF HasEntry(mp, order_id)
       THEN [mp EXCEPT ![EntryIndex(mp, order_id)] = e]
       ELSE Append(mp, e)

\* a del that leaves the entry where it is
DelEntryKeeps(mp, order_id) == mp

\* del self.manual_process[order_id]
DelEntry(mp, order_id) ==
    LET Keep(e) == e.order_id # order_id IN SelectSeq(mp, Keep)

\* the elements of a delivery_info list: a string or a dict, the dict kept
\* as the sequence of its (key, value) items
StrItem(s) == [isDict |-> FALSE, str |-> s, items |-> <<>>]
DictItem(items) == [isDict |-> TRUE, str |-> <<>>, items |-> items]

\* d[key] = value on a dict kept as a sequence of items
DictSet(d, key, value) ==
    IF \E i \in 1..Len(d) : d[i][1] = key
    THEN [i \in 1..Len(d) |-> IF d[i][1] = key THEN <<key, value>> ELSE d[i]]
    ELSE Append(d, <<key, value>>)

\* dict(zip(names, values))
RECURSIVE dict_zip(_, _)
dict_zip(names, values) ==
    IF names = <<>> \/ values = <<>> THEN <<>>
    ELSE LET n == Min(Len(names), Len(values))
         IN DictSet(dict_zip(SubSeq(names, 1, n - 1), SubSeq(values, 1, n - 1)),
                    names[n], values[n])

(***************************************************************************)
(* Two instances of the program on the same inventory store: each call of  *)
(* get_available_account is its read (line 294), its filter (lines         *)
(* 298-315), its selection (lines 317-318) and its update (lines 322-335), *)
(* and the steps of the two calls interleave.                              *)
(***************************************************************************)
SetCall(c, v) == calls' = [calls EXCEPT ![c] = v]

ConcFrame ==
    UNCHANGED <<now, orderStatus, orderStore, manual_process, retry_count,
                mpc, orders, oidx, reserved, has_escape, last>>

\* line 294: product_data = self.ref.child(product_id).get(); a read that
\* raises ends the call at line 342
ConcRead(c, product_id, order_quantity, store) ==
    /\ calls[c].pc \in {"idle", "done"}
    /\ IF store = "read_fails"
       THEN SetCall(c, [NoCall EXCEPT !.pc = "done",
                                     !.product_id = product_id,
                                     !.quantity = order_quantity])
       ELSE SetCall(c, [NoCall EXCEPT !.pc = "read",
                                     !.product_id = product_id,
                                     !.quantity = order_quantity,
                                     !.product_data = inventory[product_id]])
    /\ UNCHANGED inventory
    /\ ConcFrame

\* lines 295-315: the filter, and the two returns without a record
ConcFilter(c) ==
    /\ calls[c].pc = "read"
    /\ LET k == calls[c]
           available == available_accounts(k.product_data.accounts, k.quantity, now)
       IN IF ~k.product_data.exists \/ available = <<>>
          THEN SetCall(c, [k EXCEPT !.pc = "done", !.t = now])
          ELSE SetCall(c, [k EXCEPT !.pc = "filtered", !.t = now,
                                    !.available = available])
    /\ UNCHANGED inventory
    /\ ConcFrame

\* lines 317-318: the sort and the choice of its first element
ConcSelect(c) ==
    /\ calls[c].pc = "filtered"
    /\ SetCall(c, [calls[c] EXCEPT !.pc = "selected",
                                   !.idx = SortByRemaining(calls[c].available)[1].idx])
    /\ UNCHANGED inventory
    /\ ConcFrame

\* lines 322-335: the update of accounts/<idx>, and the return
ConcWrite(c, store) ==
    /\ calls[c].pc = "selected"
    /\ LET k == calls[c]
           account == k.product_data.accounts[k.idx + 1]
       IN IF store = "update_fails"
          THEN /\ SetCall(c, [k EXCEPT !.pc = "done"])
               /\ UNCHANGED inventory
          ELSE /\ SetCall(c, [k EXCEPT !.pc = "done", !.returned = TRUE])
               /\ inventory' =
                     [inventory EXCEPT ![k.product_id].accounts[k.idx + 1] =
                         UpdatedAccount(@, account, k.quantity, now)]
    /\ ConcFrame

InitConc ==
    /\ InitCommon
    /\ inventory \in DriverInventories
    /\ has_escape = FALSE

NextConc ==
    \/ Tick
    \/ \E c \in Callers, product_id \in Products, q \in Quantities,
             store \in {"ok", "read_fails"} :
          ConcRead(c, product_id, q, store)
    \/ \E c \in Callers : ConcFilter(c)
    \/ \E c \in Callers : ConcSelect(c)
    \/ \E c \in Callers, store \in {"ok", "update_fails"} : ConcWrite(c, store)

SpecConc == InitConc /\ [][NextConc]_vars

\* C2: when two allocate calls for one product interleave and ask together
\* for more than a record has left, they do not both succeed against that
\* record, and no record's currentLeases exceeds its maxLeases.
C2_NoOverSubscription ==
    /\ \A p \in Products : \A i \in 1..Len(inventory[p].accounts) :
          inventory[p].accounts[i].currentUser <= inventory[p].accounts[i].maxUser
    /\ \A c1 \in Callers : \A c2 \in Callers \ {c1} :
          LET k1 == calls[c1]
              k2 == calls[c2]
          IN ~ /\ k1.pc = "done" /\ k1.returned
               /\ k2.pc = "done" /\ k2.returned
               /\ k1.product_id = k2.product_id /\ k1.idx = k2.idx
               /\ k1.product_data = k2.product_data
               /\ k1.quantity + k2.quantity >
                     Remaining(k1.product_data.accounts[k1.idx + 1])

(***************************************************************************)
(* Claims about get_available_account, checked under SpecAlloc.            *)
(***************************************************************************)
\* the accounts of a product in an inventory, with their 1-based positions
AccountsOf(inv, p) == inv[p].accounts

\* spec section 3: a record is eligible for quantity q at time t
Eligible(acc, q, t) ==
    acc.isDict /\ acc.expired_at >= t /\ acc.maxUser - acc.currentUser >= q

\* the positions of the eligible records of the product a call was about
EligibleAt(a) ==
    IF a.before[a.product_id].exists
    THEN {i \in 1..Len(AccountsOf(a.before, a.product_id)) :
             Eligible(AccountsOf(a.before, a.product_id)[i], a.quantity, a.t)}
    ELSE {}

\* C1: every inventory record has currentLeases <= maxLeases, in every
\* state reached by calls of allocate that do not overlap.
C1_CapacityInvariant ==
    \A p \in Products : \A i \in 1..Len(AccountsOf(inventory, p)) :
        AccountsOf(inventory, p)[i].currentUser <= AccountsOf(inventory, p)[i].maxUser

\* a call has just filled a record to its capacity
C1_Witness ==
    /\ last.alloc.called /\ last.alloc.returned
    /\ LET acc == AccountsOf(inventory, last.alloc.product_id)[last.alloc.idx + 1]
       IN acc.currentUser = acc.maxUser /\ last.alloc.account.currentUser < acc.maxUser

\* C3: a successful allocate(p, q) returns a record that, when it was read,
\* had expiry >= now and maxLeases - currentLeases >= q.
C3_Eligibility ==
    (last.alloc.called /\ last.alloc.returned) =>
        /\ last.alloc.account.isDict
        /\ last.alloc.account.expired_at >= last.alloc.t
        /\ last.alloc.account.maxUser - last.alloc.account.currentUser
               >= last.alloc.quantity
        /\ last.alloc.account =
               AccountsOf(last.alloc.before, last.alloc.product_id)[last.alloc.idx + 1]

\* a call succeeded on a product that also holds an expired record and a
\* record with too little capacity left
C3_Witness ==
    /\ last.alloc.called /\ last.alloc.returned
    /\ \E i \in 1..2 :
          LET acc == AccountsOf(last.alloc.before, last.alloc.product_id)[i]
          IN acc.isDict /\ (acc.expired_at < last.alloc.t
                             \/ acc.maxUser - acc.currentUser < last.alloc.quantity)

\* C4: when the eligible set is not empty, allocate selects the eligible
\* record with the least remaining capacity, and among those with that
\* minimum the one with the smallest index.
C4_TightestFit ==
    (last.alloc.called /\ last.alloc.store = "ok" /\ EligibleAt(last.alloc) # {}) =>
        LET accs == AccountsOf(last.alloc.before, last.alloc.product_id)
            sel == last.alloc.idx + 1
        IN /\ last.alloc.returned
           /\ sel \in EligibleAt(last.alloc)
           /\ \A j \in EligibleAt(last.alloc) :
                 /\ Remaining(accs[sel]) <= Remaining(accs[j])
                 /\ Remaining(accs[sel]) = Remaining(accs[j]) => sel <= j

\* the second record was selected because it is the tighter fit
C4_Witness ==
    /\ last.alloc.called /\ last.alloc.returned
    /\ EligibleAt(last.alloc) = {1, 2}
    /\ last.alloc.idx = 1

\* two eligible records tie and the first was selected
C4_TieWitness ==
    /\ last.alloc.called /\ last.alloc.returned
    /\ EligibleAt(last.alloc) = {1, 2}
    /\ LET accs == AccountsOf(last.alloc.before, last.alloc.product_id)
       IN Remaining(accs[1]) = Remaining(accs[2])
    /\ last.alloc.idx = 0

\* C5: after a successful allocate(p, q) the selected record's
\* currentLeases is its previous value plus q, and the currentLeases and
\* maxLeases of every other record, of this and of every other product,
\* are unchanged.
C5_ReservationEffectAndFrame ==
    (last.op = "get_available_account" /\ last.alloc.returned) =>
        \A p \in Products :
            /\ inventory[p].exists = last.alloc.before[p].exists
            /\ Len(AccountsOf(inventory, p)) = Len(AccountsOf(last.alloc.before, p))
            /\ \A i \in 1..Len(AccountsOf(inventory, p)) :
                  LET new == AccountsOf(inventory, p)[i]
                      old == AccountsOf(last.alloc.before, p)[i]
                  IN /\ new.maxUser = old.maxUser
                     /\ new.currentUser =
                           IF p = last.alloc.product_id /\ i = last.alloc.idx + 1
                           THEN old.currentUser + last.alloc.quantity
                           ELSE old.currentUser

\* a call for quantity 2 succeeded while the other record held leases
C5_Witness ==
    /\ last.op = "get_available_account" /\ last.alloc.returned
    /\ last.alloc.quantity = 2
    /\ \E i \in 1..2 :
          /\ i # last.alloc.idx + 1
          /\ AccountsOf(inventory, last.alloc.product_id)[i].currentUser > 0

\* C6: allocate returns a record and no error, or no record and an error.
\* The error is NotFound ("Product not found") when the product read has no
\* data, NoAvailability ("No available accounts") when it has data and no
\* eligible record, ReservationFailed ("Account update failed") with no
\* record when the store rejects the counter update; in the NotFound and
\* NoAvailability cases the inventory is what it was.
C6_TypedAllocationFailure ==
    last.alloc.called =>
        LET a == last.alloc
            read == a.store # "read_fails"
        IN /\ a.returned <=> a.error = ""
           /\ ~a.returned => a.account = NotADict
           /\ a.returned => a.account.isDict
           /\ (read /\ ~a.before[a.product_id].exists) => a.error = "Product not found"
           /\ (read /\ a.before[a.product_id].exists /\ EligibleAt(a) = {})
                 => a.error = "No available accounts"
           /\ (a.store = "update_fails" /\ EligibleAt(a) # {})
                 => (a.error = "Account update failed" /\ ~a.returned)
           /\ a.error \in {"Product not found", "No available accounts"}
                 => inventory = a.before

\* the store rejected the update of an eligible record
C6_Witness ==
    /\ last.alloc.called
    /\ last.alloc.store = "update_fails"
    /\ EligibleAt(last.alloc) # {}
    /\ last.alloc.error = "Account update failed"

(***************************************************************************)
(* Claims about the driver and the poll loop, checked under Spec.          *)
(***************************************************************************)
\* the quantity the listing gives for an order id
ListedQuantity(o) ==
    LET i == CHOOSE j \in 1..Len(Catalogue) : Catalogue[j].order_id = o
    IN QuantityOf(Catalogue[i])

\* C7: for an order of the listing that needs processing, has an order id
\* and a product reference and for which the allocator succeeds,
\* processPending submits a DELIVER action for that order id, and when the
\* submission succeeds the order is persisted with status DELIVER and the
\* payload submitted.
C7_AutomaticFulfillment ==
    (last.op = "process_pending_orders" /\ last.alloc.called /\ last.alloc.returned) =>
        \E i \in 1..Len(last.submits) :
            /\ last.submits[i].order_id = last.order_id
            /\ last.submits[i].action = "DELIVER"
            /\ last.submits[i].delivery_info # <<>>
            /\ last.submits[i].ok =>
                  /\ orderStore[last.order_id].present
                  /\ orderStore[last.order_id].status = "DELIVER"
                  /\ orderStore[last.order_id].delivery_info =
                        last.submits[i].delivery_info

ManualFrame ==
    UNCHANGED <<inventory, now, retry_count, mpc, orders, oidx, reserved,
                calls, has_escape>>

\* a prompt sent with force_reply=True
Prompt(text) == Msg(text, "force_reply", "")

\* lines 84-98: the message handle_delivery_type sends after it stored
\* the conversation state
DeliveryTypePrompt(order_id, type_num) ==
    CASE type_num = 1 -> <<Prompt("Enter delivery info in format: value")>>
      [] type_num = 2 -> <<Prompt("Enter multiple values separated by comma")>>
      [] type_num = 3 ->
           IF delivery_info_field(order_id) = <<>>
           THEN <<Msg("No fields defined for this order type", "", "")>>
           ELSE <<Prompt(<<"Enter", delivery_info_field(order_id)[1].field_name>>)>>
      [] OTHER -> <<>>

\* handle_delivery_type (src/main.py:76-98); info is what get_order_info
\* does at line 77
HandleDeliveryType(order_id, type_num, info) ==
    /\ CASE info = "raise" ->
             /\ last' = [NoLast EXCEPT !.op = "handle_delivery_type",
                                       !.raised = "RequestException"]
             /\ UNCHANGED manual_process
         [] info = "none" ->
             /\ last' = [NoLast EXCEPT !.op = "handle_delivery_type",
                                       !.msgs = <<Msg("Order not found", "", "")>>]
             /\ UNCHANGED manual_process
         [] OTHER ->
             /\ manual_process' = SetEntry(manual_process, order_id, type_num, <<>>)
             /\ last' = [NoLast EXCEPT !.op = "handle_delivery_type",
                                       !.order_id = order_id,
                                       !.msgs = DeliveryTypePrompt(order_id, type_num)]
    /\ UNCHANGED <<orderStatus, orderStore>>
    /\ ManualFrame

\* a routing to the entry inserted last
RoutedOrderLast(mp) == IF mp = <<>> THEN "" ELSE mp[Len(mp)].order_id

\* line 101: the first key of manual_process whose value is truthy (every
\* value is a dict with two keys, so every value is); "" when there is none
RoutedOrder(mp) == IF mp = <<>> THEN "" ELSE mp[1].order_id

\* line 114: values = [v.strip() for v in input_value.split(',')]
ListValues(input_value) ==
    [i \in 1..Len(split(input_value)) |-> strip(split(input_value)[i])]

\* a list that is taken as soon as one of its values is valid
AnyValid(values) ==
    \E i \in 1..Len(values) : validate_input(values[i], NoPattern).ok

\* line 115: all(self.validate_input(v, order_id) for v in values)
AllValid(values) ==
    \A i \in 1..Len(values) : validate_input(values[i], NoPattern).ok

\* line 115: all() stops at the first value that fails, whose message is
\* the only one sent
ListMsgs(values) ==
    IF AllValid(values) THEN <<>>
    ELSE <<Msg(validate_input(
                 values[CHOOSE i \in 1..Len(values) :
                          /\ ~validate_input(values[i], NoPattern).ok
                          /\ \A j \in 1..(i - 1) : validate_input(values[j], NoPattern).ok],
                 NoPattern).msg, "", "")>>

\* a completion that deletes the entry only when the submission succeeded
DeliverAndDeleteOnSuccess(order_id, text, delivery_info, msgs, outcome) ==
    /\ orderStore' = process_order_store(orderStore, order_id, "DELIVER",
                                         delivery_info, now, outcome)
    /\ orderStatus' = process_order_source(orderStatus, order_id, "DELIVER", outcome)
    /\ manual_process' = IF process_order_result(outcome).ok
                         THEN DelEntry(manual_process, order_id)
                         ELSE manual_process
    /\ last' = [NoLast EXCEPT
                   !.op = "handle_manual_input",
                   !.order_id = order_id,
                   !.text = text,
                   !.msgs = msgs,
                   !.submits = <<Submission(order_id, "DELIVER", delivery_info, outcome)>>]

\* process_order(order_id, "DELIVER", delivery_info) followed by
\* del self.manual_process[order_id] (lines 110-111, 116-117, 132-133)
DeliverAndDelete(order_id, text, delivery_info, msgs, outcome) ==
    /\ orderStore' = process_order_store(orderStore, order_id, "DELIVER",
                                         delivery_info, now, outcome)
    /\ orderStatus' = process_order_source(orderStatus, order_id, "DELIVER", outcome)
    /\ manual_process' = DelEntry(manual_process, order_id)
    /\ last' = [NoLast EXCEPT
                   !.op = "handle_manual_input",
                   !.order_id = order_id,
                   !.text = text,
                   !.msgs = msgs,
                   !.submits = <<Submission(order_id, "DELIVER", delivery_info, outcome)>>]

\* handle_manual_input returns, or raises, with nothing submitted
ManualInputReturn(order_id, text, mp, msgs, raised) ==
    /\ manual_process' = mp
    /\ last' = [NoLast EXCEPT !.op = "handle_manual_input",
                              !.order_id = order_id,
                              !.text = text,
                              !.msgs = msgs,
                              !.raised = raised]
    /\ UNCHANGED <<orderStatus, orderStore>>

\* a mode-1 turn that submits the reply without validating it
ManualInputSingleUnchecked(order_id, text, input_value) ==
    \E outcome \in SubmitOutcomes :
        DeliverAndDelete(order_id, text, <<StrItem(input_value)>>, <<>>, outcome)

\* lines 108-111
ManualInputSingle(order_id, text, input_value) ==
    LET v == validate_input(input_value, NoPattern)
    IN IF v.ok
       THEN \E outcome \in SubmitOutcomes :
               DeliverAndDelete(order_id, text, <<StrItem(input_value)>>, <<>>, outcome)
       ELSE ManualInputReturn(order_id, text, manual_process,
                              <<Msg(v.msg, "", "")>>, "")

\* lines 113-117
ManualInputList(order_id, text, input_value) ==
    LET values == ListValues(input_value)
    IN IF AllValid(values)
       THEN \E outcome \in SubmitOutcomes :
               DeliverAndDelete(order_id, text,
                                [i \in 1..Len(values) |-> StrItem(values[i])],
                                <<>>, outcome)
       ELSE ManualInputReturn(order_id, text, manual_process, ListMsgs(values), "")

\* lines 119-137
ManualInputFields(order_id, text, input_value, info) ==
    LET fields == delivery_info_field(order_id)
        inputs == manual_process[1].inputs
    IN CASE info = "raise" ->
              ManualInputReturn(order_id, text, manual_process, <<>>, "RequestException")
         [] info = "none" ->
              ManualInputReturn(order_id, text, manual_process, <<>>, "AttributeError")
         [] info = "data" /\ Len(inputs) >= Len(fields) ->
              ManualInputReturn(order_id, text, manual_process, <<>>, "IndexError")
         [] OTHER ->
              LET current_field == fields[Len(inputs) + 1]
                  v == validate_input(input_value, current_field.validation_pattern)
                  collected == Append(inputs, input_value)
              IN IF ~v.ok
                 THEN ManualInputReturn(order_id, text, manual_process,
                                        <<Msg(v.msg, "", "")>>, "")
                 ELSE IF Len(collected) = Len(fields)
                 THEN \E outcome \in SubmitOutcomes :
                         DeliverAndDelete(
                            order_id, text,
                            <<DictItem(dict_zip([i \in 1..Len(fields) |-> fields[i].field_name],
                                                collected))>>,
                            <<>>, outcome)
                 ELSE ManualInputReturn(
                          order_id, text,
                          SetEntry(manual_process, order_id, 3, collected),
                          <<Prompt(<<"Enter", fields[Len(collected) + 1].field_name>>)>>,
                          "")

\* handle_manual_input (src/main.py:100-137); text is message.text; what
\* get_order_info does at line 120 and what process_order meets are drawn
\* where the handler gets there
HandleManualInput(text) ==
    /\ LET order_id == RoutedOrder(manual_process)
           input_value == strip(text)
       IN IF order_id = ""
          THEN ManualInputReturn("", text, manual_process, <<>>, "")
          ELSE CASE manual_process[1].type = 1 ->
                      ManualInputSingle(order_id, text, input_value)
                 [] manual_process[1].type = 2 ->
                      ManualInputList(order_id, text, input_value)
                 [] manual_process[1].type = 3 ->
                      \E info \in OrderInfoOutcomes :
                         ManualInputFields(order_id, text, input_value, info)
                 [] OTHER ->
                      ManualInputReturn(order_id, text, manual_process, <<>>, "")
    /\ ManualFrame

\* SpecManual: the conversation handlers called in any order, with any
\* reply, against the order source
InitManual ==
    /\ InitCommon
    /\ inventory = [p \in Products |-> NoData]
    /\ has_escape = FALSE

NextManual ==
    \/ \E order_id \in ManualOrders, type_num \in 1..3 :
          \E info \in OrderInfoOutcomes :
             HandleDeliveryType(order_id, type_num, info)
    \/ \E text \in Replies : HandleManualInput(text)

SpecManual == InitManual /\ [][NextManual]_vars

(***************************************************************************)
(* Claims about the manual-delivery conversation, checked under            *)
(* SpecManual.  A step whose last' names handle_manual_input is a call of  *)
(* that handler: manual_process is the conversation map it found, text the *)
(* reply it was given.                                                     *)
(***************************************************************************)
\* a reply without the white space around it
Trimmed(s) ==
    LET inner == {i \in 1..Len(s) : s[i] \notin Whitespace}
    IN IF inner = {} THEN <<>>
       ELSE SubSeq(s, CHOOSE i \in inner : \A j \in inner : i <= j,
                      CHOOSE i \in inner : \A j \in inner : j <= i)

\* a value matches a pattern [class]{count}$
Matches(pattern, value) ==
    /\ Len(value) = pattern.count
    /\ \A i \in 1..Len(value) : value[i] \in pattern.class

\* a reply is acceptable for a field
Acceptable(field, value) ==
    /\ value # <<>>
    /\ field.validation_pattern.given => Matches(field.validation_pattern, value)

\* the mapping of the field names to the values, in schema order
FieldMapping(fields, values) ==
    [i \in 1..Len(fields) |-> <<fields[i].field_name, values[i]>>]

\* the handler ran on a mode-3 conversation of an order with fields
C9_Mode3Call ==
    /\ last'.op = "handle_manual_input"
    /\ manual_process # <<>>
    /\ manual_process[1].type = 3
    /\ delivery_info_field(manual_process[1].order_id) # <<>>

C9_Step ==
    C9_Mode3Call =>
        LET e == manual_process[1]
            fields == delivery_info_field(e.order_id)
            k == Len(e.inputs)
            v == Trimmed(last'.text)
            values == Append(e.inputs, v)
        IN /\ k < Len(fields)
           /\ \A i \in 1..k : Acceptable(fields[i], e.inputs[i])
           /\ IF last'.raised # "" \/ ~Acceptable(fields[k + 1], v)
              THEN /\ manual_process' = manual_process
                   /\ last'.submits = <<>>
                   /\ orderStore' = orderStore
              ELSE IF k + 1 < Len(fields)
              THEN /\ manual_process' = [manual_process EXCEPT ![1].inputs = values]
                   /\ last'.submits = <<>>
                   /\ orderStore' = orderStore
                   /\ last'.msgs = <<Prompt(<<"Enter", fields[k + 2].field_name>>)>>
              ELSE /\ Len(last'.submits) = 1
                   /\ last'.submits[1].order_id = e.order_id
                   /\ last'.submits[1].action = "DELIVER"
                   /\ last'.submits[1].delivery_info =
                         <<DictItem(FieldMapping(fields, values))>>

\* C9: in mode 3, for an order with a non-empty field schema, the replies
\* are matched to the fields in schema order, one per turn; a reply is
\* accepted only if it is not empty and matches its field's pattern; a
\* single DELIVER, whose payload is the one-element list holding the
\* mapping of the field names to the replies accepted, is submitted exactly
\* when the accepted replies are as many as the fields, and none before.
C9_StructuredFields == [][C9_Step]_vars

\* 'x@y.com' and then '1234' were accepted for the schema [email, code]
C9_Witness ==
    /\ last.op = "handle_manual_input"
    /\ last.text = <<"1", "2", "3", "4">>
    /\ Len(last.submits) = 1
    /\ last.submits[1].delivery_info =
          <<DictItem(<< <<"email", <<"x", "@", "y", ".", "c", "o", "m">> >>,
                        <<"code", <<"1", "2", "3", "4">> >> >>)>>

\* '12a4' was rejected for the field code, after 'x@y.com' was accepted
C9_RejectWitness ==
    /\ last.op = "handle_manual_input"
    /\ last.text = <<"1", "2", "a", "4">>
    /\ last.msgs = <<Msg("Input format invalid", "", "")>>
    /\ manual_process # <<>>
    /\ manual_process[1].type = 3
    /\ manual_process[1].inputs = << <<"x", "@", "y", ".", "c", "o", "m">> >>

\* the positions of the commas of a text, and its elements: the i-th
\* element lies between the (i-1)-th and the i-th comma
Commas(s) == {i \in 1..Len(s) : s[i] = ","}

CommaAt(s, n) ==
    IF n = 0 THEN 0
    ELSE IF n > Cardinality(Commas(s)) THEN Len(s) + 1
    ELSE CHOOSE i \in Commas(s) : Cardinality({j \in Commas(s) : j <= i}) = n

Elements(s) ==
    [n \in 1..(Cardinality(Commas(s)) + 1) |->
        Trimmed(SubSeq(s, CommaAt(s, n - 1) + 1, CommaAt(s, n) - 1))]

\* the handler ran on a mode-2 conversation
C10_Mode2Call ==
    /\ last'.op = "handle_manual_input"
    /\ manual_process # <<>>
    /\ manual_process[1].type = 2

C10_Step ==
    C10_Mode2Call =>
        LET e == manual_process[1]
            elements == Elements(last'.text)
        IN IF \A i \in 1..Len(elements) : elements[i] # <<>>
           THEN /\ Len(last'.submits) = 1
                /\ last'.submits[1].order_id = e.order_id
                /\ last'.submits[1].action = "DELIVER"
                /\ last'.submits[1].delivery_info =
                      [i \in 1..Len(elements) |-> StrItem(elements[i])]
           ELSE /\ last'.submits = <<>>
                /\ manual_process' = manual_process
                /\ orderStore' = orderStore
                /\ orderStatus' = orderStatus

\* C10: in mode 2 the reply is split on commas and each element trimmed;
\* when every element is non-empty, DELIVER is submitted with the trimmed
\* elements in reply order; when one is empty nothing is submitted, nothing
\* is stored and the conversation stays as it was, awaiting the list.
C10_ListAllOrNothing == [][C10_Step]_vars

\* 'a,,c' was rejected and the conversation still awaits the list
C10_Witness ==
    /\ last.op = "handle_manual_input"
    /\ last.text = <<"a", ",", ",", "c">>
    /\ last.submits = <<>>
    /\ manual_process # <<>>
    /\ manual_process[1].type = 2

\* 'a, b ,c' was submitted as ['a', 'b', 'c']
C10_AcceptWitness ==
    /\ last.op = "handle_manual_input"
    /\ last.text = <<"a", ",", " ", "b", " ", ",", "c">>
    /\ Len(last.submits) = 1
    /\ last.submits[1].delivery_info =
          <<StrItem(<<"a">>), StrItem(<<"b">>), StrItem(<<"c">>)>>

\* the handler ran on a mode-1 conversation
C11_Mode1Call ==
    /\ last'.op = "handle_manual_input"
    /\ manual_process # <<>>
    /\ manual_process[1].type = 1

C11_Step ==
    C11_Mode1Call =>
        LET e == manual_process[1]
            v == Trimmed(last'.text)
        IN IF v # <<>>
           THEN /\ Len(last'.submits) = 1
                /\ last'.submits[1].order_id = e.order_id
                /\ last'.submits[1].action = "DELIVER"
                /\ last'.submits[1].delivery_info = <<StrItem(v)>>
                /\ ~HasEntry(manual_process', e.order_id)
           ELSE /\ last'.submits = <<>>
                /\ manual_process' = manual_process
                /\ orderStore' = orderStore
                /\ orderStatus' = orderStatus

\* C11: in mode 1 a reply that is not empty once trimmed ends the
\* conversation with one DELIVER whose payload is the one-element list
\* holding the trimmed reply; an empty or blank reply submits nothing and
\* the conversation of that order stays in the map, in mode 1.
C11_SingleValue == [][C11_Step]_vars

\* 'a,,c' was submitted as the single value ['a,,c']
C11_Witness ==
    /\ last.op = "handle_manual_input"
    /\ last.text = <<"a", ",", ",", "c">>
    /\ Len(last.submits) = 1
    /\ last.submits[1].delivery_info = <<StrItem(<<"a", ",", ",", "c">>)>>
    /\ ~HasEntry(manual_process, last.order_id)

\* a blank reply was rejected and the conversation is still in mode 1
C11_RejectWitness ==
    /\ last.op = "handle_manual_input"
    /\ last.text = <<" ">>
    /\ last.submits = <<>>
    /\ manual_process # <<>>
    /\ manual_process[1].type = 1
    /\ manual_process[1].order_id = last.order_id

\* the reply fails the validation of the conversation e: it is empty, one
\* of its elements is (mode 2), or it does not match the pattern of the
\* field it answers (mode 3)
C12_Fails(e, text) ==
    CASE e.type = 1 -> Trimmed(text) = <<>>
      [] e.type = 2 -> \E i \in 1..Len(Elements(text)) : Elements(text)[i] = <<>>
      [] e.type = 3 ->
           /\ Len(e.inputs) < Len(delivery_info_field(e.order_id))
           /\ ~Acceptable(delivery_info_field(e.order_id)[Len(e.inputs) + 1],
                          Trimmed(text))
      [] OTHER -> FALSE

\* the notice that failure calls for
C12_Notice(e, text) ==
    IF e.type = 3 /\ Trimmed(text) # <<>>
    THEN "Input format invalid"
    ELSE "Input cannot be empty"

C12_Step ==
    (/\ last'.op = "handle_manual_input"
     /\ manual_process # <<>>
     /\ last'.raised = ""
     /\ C12_Fails(manual_process[1], last'.text)) =>
        /\ manual_process' = manual_process
        /\ last'.submits = <<>>
        /\ orderStore' = orderStore
        /\ orderStatus' = orderStatus
        /\ last'.msgs = <<Msg(C12_Notice(manual_process[1], last'.text), "", "")>>

\* C12: in every mode a reply that fails validation leaves the conversation
\* map as it was (same mode, same values collected), submits nothing,
\* writes nothing to the order store, and sends one notice: 'Input cannot
\* be empty' for an empty reply, 'Input format invalid' for a mismatch.
C12_FailurePreservesState == [][C12_Step]_vars

\* '12a4' failed the pattern of the second field: the value collected for
\* the first field is kept and nothing was submitted
C12_Witness ==
    /\ last.op = "handle_manual_input"
    /\ last.text = <<"1", "2", "a", "4">>
    /\ last.msgs = <<Msg("Input format invalid", "", "")>>
    /\ last.submits = <<>>
    /\ manual_process # <<>>
    /\ manual_process[1].type = 3
    /\ Len(manual_process[1].inputs) = 1

\* an empty reply was rejected in mode 3 with the notice for empty input
C12_EmptyWitness ==
    /\ last.op = "handle_manual_input"
    /\ last.text = <<>>
    /\ last.msgs = <<Msg("Input cannot be empty", "", "")>>
    /\ manual_process # <<>>
    /\ manual_process[1].type = 3

C13_Step ==
    /\ last'.op = "handle_manual_input" =>
          \A i \in 1..Len(last'.submits) :
              /\ HasEntry(manual_process, last'.submits[i].order_id)
              /\ last'.submits[i].ok =>
                    ~HasEntry(manual_process', last'.submits[i].order_id)
    /\ \A o \in ManualOrders :
          (~HasEntry(manual_process, o) /\ HasEntry(manual_process', o)) =>
              (last'.op = "handle_delivery_type" /\ last'.order_id = o)

\* C13: when the DELIVER of a conversation succeeded, the order has no
\* entry in the conversation map; a reply is applied only to an order that
\* has one, and an entry comes into the map by handle_delivery_type alone.
C13_CleanupOnCompletion == [][C13_Step]_vars

\* a DELIVER succeeded, its order left the map and another order's
\* conversation is still there
C13_Witness ==
    /\ last.op = "handle_manual_input"
    /\ Len(last.submits) = 1
    /\ last.submits[1].ok
    /\ ~HasEntry(manual_process, last.order_id)
    /\ manual_process # <<>>

\* C14: at most one order has a conversation state in the conversation map.
C14_SingleActiveConversation == Len(manual_process) <= 1

\* the entries of the conversation map that belong to other orders
OtherEntries(mp, order_id) ==
    LET Other(e) == e.order_id # order_id IN SelectSeq(mp, Other)

C19_Step ==
    last'.op = "handle_manual_input" =>
        IF manual_process = <<>>
        THEN /\ manual_process' = manual_process
             /\ orderStore' = orderStore
             /\ orderStatus' = orderStatus
             /\ last'.submits = <<>>
             /\ last'.msgs = <<>>
        ELSE LET o == manual_process[1].order_id
             IN /\ last'.order_id = o
                /\ OtherEntries(manual_process', o) = OtherEntries(manual_process, o)
                /\ \A i \in 1..Len(last'.submits) : last'.submits[i].order_id = o
                /\ \A x \in OrderIds \ {o} :
                      /\ orderStore'[x] = orderStore[x]
                      /\ orderStatus'[x] = orderStatus[x]

\* C19: a reply is applied to the first order of the conversation map, in
\* insertion order; the entries of the other orders, and what the stores
\* hold for them, are unchanged; with an empty map the reply does nothing.
C19_ReplyRoutingFrame == [][C19_Step]_vars

\* a reply completed the conversation of the order inserted first while the
\* conversation of the other order stayed, untouched, in mode 3
C19_Witness ==
    /\ last.op = "handle_manual_input"
    /\ Len(last.submits) = 1
    /\ Len(manual_process) = 1
    /\ manual_process[1].order_id # last.order_id
    /\ manual_process[1].type = 3
    /\ manual_process[1].inputs = <<>>

\* a reply arrived while no conversation existed
C19_IdleWitness ==
    /\ last.op = "handle_manual_input"
    /\ last.order_id = ""
    /\ manual_process = <<>>

\* C20: a mode-3 conversation state has fewer values collected than its
\* order's field schema has fields; selecting mode 3 for an order whose
\* schema is empty leaves no conversation state.
C20_Mode3Progress ==
    \A i \in 1..Len(manual_process) :
        manual_process[i].type = 3 =>
            Len(manual_process[i].inputs) <
                Len(delivery_info_field(manual_process[i].order_id))

(***************************************************************************)
(* process_order called on its own with every action and payload           *)
(* (src/main.py:258-286), and the claims about it, checked under           *)
(* SpecSubmit.                                                             *)
(***************************************************************************)
\* the action parameter: DELIVER, the one action main.py submits, and one
\* other action of the order source
SubmitActions == {"DELIVER", "REJECT"}

\* the delivery_info parameter: None (or an empty list) and a payload
SubmitPayloads == {<<>>, SamplePayload}

InitSubmit ==
    /\ InitCommon
    /\ inventory = [p \in Products |-> NoData]
    /\ has_escape = FALSE

NextSubmit ==
    \/ Tick
    \/ \E order_id \in ManualOrders, action \in SubmitActions,
             delivery_info \in SubmitPayloads, outcome \in SubmitOutcomes :
          CallProcessOrder(order_id, action, delivery_info, outcome)

SpecSubmit == InitSubmit /\ [][NextSubmit]_vars

\* what the order store holds for an order after a submission it persisted
Persisted(s, t) ==
    [present |-> TRUE, status |-> s.action, processed_at |-> t,
     delivery_info |-> s.delivery_info]

C16_Step ==
    last'.op = "process_order" =>
        /\ last'.raised = ""
        /\ Len(last'.submits) = 1
        /\ LET s == last'.submits[1]
           IN /\ s.outcome # "accepted" => ~s.ok
              /\ s.ok => /\ s.outcome = "accepted"
                         /\ orderStore'[s.order_id] = Persisted(s, now)
              /\ s.outcome \in {"rejected", "transport_error"} =>
                    orderStore' = orderStore
              /\ \A o \in OrderIds \ {s.order_id} : orderStore'[o] = orderStore[o]

\* C16: process_order does not raise; a transport, parse or store failure
\* gives (False, message); it gives (True, _) only when the order source
\* answered success, and then the order store holds, for that order id,
\* the action submitted as status and the payload submitted; when the
\* source rejects the action or cannot be reached the store is unchanged.
C16_SubmitNeverRaises == [][C16_Step]_vars

\* the source accepted the action and the store update failed: the call
\* returned False and the store holds nothing for the order
C16_Witness ==
    /\ last.op = "process_order"
    /\ Len(last.submits) = 1
    /\ last.submits[1].outcome = "accepted_store_fails"
    /\ ~last.submits[1].ok
    /\ ~orderStore[last.order_id].present

\* the call returned True and the store holds DELIVER and the payload
C16_SuccessWitness ==
    /\ last.op = "process_order"
    /\ Len(last.submits) = 1
    /\ last.submits[1].ok
    /\ orderStore[last.order_id].status = "DELIVER"
    /\ orderStore[last.order_id].delivery_info = SamplePayload

\* the source rejected an action for an order that an earlier call had
\* persisted: the store still holds what that call wrote
C16_RejectWitness ==
    /\ last.op = "process_order"
    /\ Len(last.submits) = 1
    /\ last.submits[1].outcome = "rejected"
    /\ last.submits[1].action = "REJECT"
    /\ orderStore[last.order_id].present
    /\ orderStore[last.order_id].status = "DELIVER"

(***************************************************************************)
(* Claims about the iteration of process_pending_orders, checked under     *)
(* Spec.  orders is the listing the call was given, oidx the position of   *)
(* the order the loop is at.                                               *)
(***************************************************************************)
\* the step is one order of the loop of process_pending_orders
C18_LoopStep ==
    last'.op \in {"process_pending_orders", "process_pending_orders_skip"}

C18_Step ==
    /\ C18_LoopStep =>
          /\ mpc = "process"
          /\ oidx \in 1..Len(orders)
          /\ orders' = orders
          /\ last'.order_id = orders[oidx].order_id
          /\ last'.raised = "" => (oidx' = oidx + 1 /\ mpc' = "process")
          /\ last'.alloc.called =>
                /\ NeedsProcessing(orders[oidx])
                /\ last'.alloc.product_id = orders[oidx].product_id
                /\ last'.alloc.quantity = QuantityOf(orders[oidx])
          /\ ~NeedsProcessing(orders[oidx]) =>
                /\ ~last'.alloc.called
                /\ last'.msgs = <<>>
                /\ inventory' = inventory
          /\ (last'.alloc.called /\ ~last'.alloc.returned) =>
                /\ \E i \in 1..Len(last'.msgs) :
                      /\ last'.msgs[i].button_kind = "manual_process"
                      /\ last'.msgs[i].button_target = orders[oidx].order_id
                /\ inventory' = inventory
                /\ oidx' = oidx + 1
                /\ mpc' = "process"
    /\ inventory' # inventory => (C18_LoopStep /\ last'.alloc.called)
    /\ oidx' # oidx => (oidx' = oidx + 1 \/ last'.op = "get_recent_orders")

C18_ContinueWitness ==
    /\ last.op = "process_pending_orders"
    /\ last.order_id = "o3"
    /\ last.alloc.called
    /\ last.alloc.error = "Product not found"
    /\ reserved["o2"] = 0

\* an order without a product id was passed over
C18_SkipWitness ==
    /\ last.op = "process_pending_orders_skip"
    /\ last.order_id = "o4"
    /\ oidx = 5

(***************************************************************************)
(* The poll loop as the one thread that runs monitor (src/main.py:417-451) *)
(* against the order source and the stores.  The thread goes on: a sleep   *)
(* ends and a call to the order source or the store returns or raises, so  *)
(* a step of the loop that stays possible is taken.                        *)
(***************************************************************************)
\* the inventories the loop is started on: two records without leases
LoopInventories ==
    {inv \in DriverInventories :
        \A i \in 1..2 : inv["p1"].accounts[i].currentUser = 0}

\* line 426: a call of get_recent_orders
MonitorPollStep ==
    \E got \in {Listing(orderStatus), <<>>} : MonitorPoll(got)

\* a step of the thread that runs monitor
MonitorStep ==
    \/ MonitorPollStep
    \/ ProcessPendingSkip
    \/ ProcessPendingRaise
    \/ \E store \in StoreOutcomes : ProcessPendingOrder(store)
    \/ ProcessPendingReturn

InitLoop ==
    /\ InitCommon
    /\ inventory \in LoopInventories
    /\ has_escape \in EscapeDefined

NextLoop ==
    \/ Tick
    \/ \E got \in {Listing(orderStatus), <<>>} : MonitorPoll(got)
    \/ ProcessPendingSkip
    \/ ProcessPendingRaise
    \/ \E store \in StoreOutcomes : ProcessPendingOrder(store)
    \/ ProcessPendingReturn

SpecLoop == InitLoop /\ [][NextLoop]_vars /\ WF_vars(MonitorStep)

\* C17: no error raised inside a tick ends the poll loop: whatever
\* happened so far (a tick that raised, a tick that got an empty list), the
\* loop calls get_recent_orders again, for ever.
C17_PollLoopGoesOn == []<><<MonitorPollStep>>_vars

\* the first order of a listing raised at line 227, the except branch
\* counted the retry, and the next poll was made and came back empty
C17_Witness ==
    /\ ~has_escape
    /\ orders # <<>>
    /\ oidx = 1
    /\ mpc = "poll"
    /\ last.op = "get_recent_orders"
    /\ retry_count = 2

(***************************************************************************)
(* The handlers setup_telegram_handlers registers with the bot             *)
(* (src/main.py:58-74), given the updates of the chat: a press of a button *)
(* the program sends (call.data is the button's callback_data) and a text  *)
(* message, sent as a reply to a prompt of the program or on its own.      *)
(* A button stays in the chat, so it may be pressed at any time.           *)
(***************************************************************************)
\* 'manual_process_'
ManualProcessPrefix ==
    <<"m", "a", "n", "u", "a", "l", "_", "p", "r", "o", "c", "e", "s", "s",
      "_">>

\* 'check_stock_'
CheckStockPrefix ==
    <<"c", "h", "e", "c", "k", "_", "s", "t", "o", "c", "k", "_">>

\* 'delivery_type_'
DeliveryTypePrefix ==
    <<"d", "e", "l", "i", "v", "e", "r", "y", "_", "t", "y", "p", "e", "_">>

\* 'manual_process', the text line 73 looks for
ManualProcessWord ==
    <<"m", "a", "n", "u", "a", "l", "_", "p", "r", "o", "c", "e", "s", "s">>

\* the order ids as text
OrderIdText(order_id) ==
    CASE order_id = "o1" -> <<"o", "1">>
      [] order_id = "o2" -> <<"o", "2">>
      [] order_id = "o3" -> <<"o", "3">>
      [] OTHER -> <<"?">>

\* the order id a text names
OrderIdFromText(text) ==
    IF \E o \in OrderIds : OrderIdText(o) = text
    THEN CHOOSE o \in OrderIds : OrderIdText(o) = text
    ELSE "unknown"

\* line 244: callback_data=f"manual_process_{order_id}"
ManualProcessData(order_id) == ManualProcessPrefix \o OrderIdText(order_id)

\* lines 165-167: callback_data=f"delivery_type_{order_id}_{k}"
DeliveryTypeData(order_id, k) ==
    DeliveryTypePrefix \o OrderIdText(order_id) \o <<"_">> \o
    <<CASE k = 1 -> "1" [] k = 2 -> "2" [] OTHER -> "3">>

\* the callback data of the buttons the program sends
ButtonData ==
    {ManualProcessData(o) : o \in ManualOrders} \cup
    {DeliveryTypeData(o, k) : o \in ManualOrders, k \in 1..3}

\* str.startswith
startswith(s, prefix) ==
    Len(s) >= Len(prefix) /\ SubSeq(s, 1, Len(prefix)) = prefix

\* str.replace(old, ''): every occurrence of old is taken out
RECURSIVE str_remove(_, _)
str_remove(s, old) ==
    IF Len(s) < Len(old) THEN s
    ELSE IF SubSeq(s, 1, Len(old)) = old
         THEN str_remove(SubSeq(s, Len(old) + 1, Len(s)), old)
         ELSE <<Head(s)>> \o str_remove(Tail(s), old)

\* sub in s
contains(s, sub) ==
    \E i \in 1..(Len(s) - Len(sub) + 1) : SubSeq(s, i, i + Len(sub) - 1) = sub

\* str.split(sep) for a separator of one character
RECURSIVE split_on(_, _)
split_on(s, sep) ==
    IF \A i \in 1..Len(s) : s[i] # sep THEN <<s>>
    ELSE LET k == CHOOSE i \in 1..Len(s) :
                     s[i] = sep /\ \A j \in 1..(i - 1) : s[j] # sep
         IN <<SubSeq(s, 1, k - 1)>> \o split_on(SubSeq(s, k + 1, Len(s)), sep)

\* the value of a decimal digit
DigitValue(c) ==
    CASE c = "0" -> 0 [] c = "1" -> 1 [] c = "2" -> 2 [] c = "3" -> 3
      [] c = "4" -> 4 [] c = "5" -> 5 [] c = "6" -> 6 [] c = "7" -> 7
      [] c = "8" -> 8 [] OTHER -> 9

\* int(text): the number, or ValueError when text is not a run of digits
RECURSIVE int_value(_)
int_value(text) ==
    IF text = <<>> THEN 0
    ELSE 10 * int_value(SubSeq(text, 1, Len(text) - 1)) + DigitValue(text[Len(text)])

int(text) ==
    IF text # <<>> /\ \A i \in 1..Len(text) : text[i] \in Digits
    THEN [ok |-> TRUE, value |-> int_value(text)]
    ELSE [ok |-> FALSE, value |-> 0]

\* the texts of the prompts sent with force_reply=True (lines 85, 88, 97
\* and 136), without their decoration
PromptTexts ==
    {
      <<"E", "n", "t", "e", "r", " ", "d", "e", "l", "i", "v", "e", "r", "y",
        " ", "i", "n", "f", "o", " ", "i", "n", " ", "f", "o", "r", "m", "a",
        "t", ":", " ", "v", "a", "l", "u", "e">>,
      <<"E", "n", "t", "e", "r", " ", "m", "u", "l", "t", "i", "p", "l", "e",
        " ", "v", "a", "l", "u", "e", "s", " ", "s", "e", "p", "a", "r", "a",
        "t", "e", "d", " ", "b", "y", " ", "c", "o", "m", "m", "a">>,
      <<"E", "n", "t", "e", "r", " ", "e", "m", "a", "i", "l", ":">>,
      <<"E", "n", "t", "e", "r", " ", "c", "o", "d", "e", ":">>
    }

\* message.reply_to_message: None, or a prompt of the program
NoReplyTo == [present |-> FALSE, text |-> <<>>]

ReplyTos == {NoReplyTo} \cup {[present |-> TRUE, text |-> t] : t \in PromptTexts}

\* a handler that ends without touching the conversation or the stores
BotReturn(op, data, order_id, msgs, raised) ==
    /\ last' = [NoLast EXCEPT !.op = op,
                              !.text = data,
                              !.order_id = order_id,
                              !.msgs = msgs,
                              !.raised = raised]
    /\ UNCHANGED <<manual_process, orderStatus, orderStore>>
    /\ ManualFrame

\* start_manual_process (src/main.py:162-178): the message with the three
\* buttons delivery_type_<order_id>_1, _2 and _3
start_manual_process(data, order_id) ==
    BotReturn("callback_query", data, order_id,
              <<Msg("Manual Processing", "delivery_type", order_id)>>, "")

\* callback_query (src/main.py:59-69)
BotCallbackQuery(data) ==
    CASE startswith(data, ManualProcessPrefix) ->
           start_manual_process(
               data, OrderIdFromText(str_remove(data, ManualProcessPrefix)))
      [] startswith(data, CheckStockPrefix) ->
           \* line 66: ItemkuMonitor has no check_and_send_stock_status
           BotReturn("callback_query", data, "", <<>>, "AttributeError")
      [] startswith(data, DeliveryTypePrefix) ->
           \* line 68: the three names take the parts of call.data.split('_')
           LET parts == split_on(data, "_")
           IN IF Len(parts) # 3 \/ ~int(parts[Len(parts)]).ok
              THEN BotReturn("callback_query", data, "", <<>>, "ValueError")
              ELSE \E info \in OrderInfoOutcomes :
                      HandleDeliveryType(OrderIdFromText(parts[2]),
                                         int(parts[3]).value, info)
      [] OTHER ->
           BotReturn("callback_query", data, "", <<>>, "")

\* handle_message (src/main.py:71-74)
BotMessage(reply_to, text) ==
    IF reply_to.present /\ contains(reply_to.text, ManualProcessWord)
    THEN HandleManualInput(text)
    ELSE BotReturn("handle_message", text, "", <<>>, "")

\* SpecBot: the poll loop, and the handlers given the presses and the
\* messages of the operator
InitBot ==
    /\ InitCommon
    /\ inventory \in LoopInventories
    /\ has_escape \in EscapeDefined

NextBot ==
    \/ Tick
    \/ \E got \in {Listing(orderStatus), <<>>} : MonitorPoll(got)
    \/ ProcessPendingSkip
    \/ ProcessPendingRaise
    \/ \E store \in StoreOutcomes : ProcessPendingOrder(store)
    \/ ProcessPendingReturn
    \/ \E data \in ButtonData : BotCallbackQuery(data)
    \/ \E reply_to \in ReplyTos, text \in Replies : BotMessage(reply_to, text)

SpecBot == InitBot /\ [][NextBot]_vars

\* C15: the press of a mode button delivery_type_<orderId>_<k> of an order
\* is handled without an error and creates the conversation state of that
\* order with mode k (or, the order source not answering for the order,
\* reports that the order was not found), so that the replies that follow
\* can be routed to it and the DELIVER submitted.
C15_ManualFlowReachable ==
    \A o \in ManualOrders : \A k \in 1..3 :
        (last.op = "callback_query" /\ last.text = DeliveryTypeData(o, k)) =>
            /\ last.raised = ""
            /\ \/ /\ HasEntry(manual_process, o)
                  /\ manual_process[EntryIndex(manual_process, o)].type = k
               \/ last.msgs = <<Msg("Order not found", "", "")>>

(***************************************************************************)
(* The end of a conversation whatever process_order returned, checked      *)
(* under SpecManual.                                                       *)
(***************************************************************************)
\* the reply is the last one the conversation e asks for: the one reply of
\* mode 1 or 2, or the reply to the last field of the schema in mode 3
C21_FinalReply(e) ==
    \/ e.type \in {1, 2}
    \/ /\ e.type = 3
       /\ Len(e.inputs) + 1 = Len(delivery_info_field(e.order_id))

C21_Step ==
    (/\ last'.op = "handle_manual_input"
     /\ manual_process # <<>>
     /\ last'.raised = ""
     /\ C21_FinalReply(manual_process[1])
     /\ ~C12_Fails(manual_process[1], last'.text)) =>
        LET o == manual_process[1].order_id
        IN /\ Len(last'.submits) = 1
           /\ last'.submits[1].order_id = o
           /\ last'.submits[1].action = "DELIVER"
           /\ ~HasEntry(manual_process', o)
           /\ manual_process' = OtherEntries(manual_process, o)
           /\ ~last'.submits[1].ok => orderStore' = orderStore

\* C21: in every mode, when the last reply a conversation asks for has
\* passed validation, one DELIVER is attempted and the order's entry is
\* removed from the conversation map whether process_order returned True
\* or False; after a failed submission the values collected are gone with
\* the entry and the order store is what it was.
C21_DeletionWhateverResult == [][C21_Step]_vars

\* the source rejected the DELIVER of a mode-3 conversation: the two values
\* collected are in no conversation state and the store holds nothing
C21_Witness ==
    /\ last.op = "handle_manual_input"
    /\ Len(last.submits) = 1
    /\ last.submits[1].outcome = "rejected"
    /\ last.submits[1].delivery_info[1].isDict
    /\ Len(last.submits[1].delivery_info[1].items) = 2
    /\ ~HasEntry(manual_process, last.order_id)
    /\ ~orderStore[last.order_id].present

\* the request of a mode-1 conversation did not reach the source: the
\* entry is gone all the same
C21_TransportWitness ==
    /\ last.op = "handle_manual_input"
    /\ Len(last.submits) = 1
    /\ last.submits[1].outcome = "transport_error"
    /\ ~last.submits[1].delivery_info[1].isDict
    /\ manual_process = <<>>
    /\ ~orderStore[last.order_id].present

====
